---- MODULE Spec2Model ----
(***************************************************************************)
(* Orchestration core of deliverybot (src/src/apps/commands.ts): the       *)
(* auto-deploy evaluator, the /deploy command handler, the dispatcher      *)
(* deployCommit and the pull-request teardown, run as concurrent webhook   *)
(* handlers against one remote deployment provider.  Every await on the    *)
(* provider is one atomic step of the handler that issues it; the          *)
(* synchronous code up to the next await belongs to the same step, and an  *)
(* await that reads nothing another handler writes is taken together with  *)
(* the step before it.  The store's lock (spec 4.6, tested by "LockStore   *)
(* counts sequentially") is modelled next to the handlers, which never     *)
(* call it.                                                                *)
(***************************************************************************)
EXTENDS Integers, Sequences, FiniteSets, TLC

\* ------------------------------------------------------------------ bounds
\* Number of webhook deliveries handled concurrently.
NumProcs == 2
\* Number of times the auto-deploy branch moves to a new commit.
MaxPush == 1
\* Number of deployments the provider lists for the pull request's branch when
\* a teardown pass starts.
MaxListed == 3
\* Number of concurrent calls of the store's lock.
NumCalls == 4

Procs == 1..NumProcs

\* ------------------------------------------------------------ vocabulary
NoEnv == "<undefined>"          \* a deployment spec without `environment`
NoToken == "undefined"          \* String(undefined): "/deploy" without a target
NoDesc == "<null>"
TplTarget == "${target}"        \* a template environment: "${target}"
MainRef == "heads/main"
OtherRef == "heads/other"
PRRef == "feature"              \* head ref of the pull request
PRSha == "sha-pr"               \* head sha of the pull request
MainShas == << "sha-m1", "sha-m2", "sha-m3" >>  \* successive heads of main
OtherSha == "sha-o1"

Dep(env) == [task |-> "deploy", environment |-> env]

\* One entry of the document.  hasDeployments = FALSE is an entry that omits
\* the `deployments` property (its value is undefined in the parsed document).
T(name, auto, transient, production, has, deps) ==
  [key |-> name, auto_deploy_on |-> auto, transient_environment |-> transient,
   production_environment |-> production, required_contexts |-> << "ci" >>,
   hasDeployments |-> has, deployments |-> deps]

\* The configuration documents (.github/deploy.yml) of the runs explored, each
\* a list of targets in document order.
Doc1 ==
  << T("staging", "refs/heads/main", FALSE, FALSE, TRUE,
       << Dep("staging"), Dep("production") >>),
     T("empty", "", FALSE, FALSE, TRUE, << >>),
     T("review", "", TRUE, FALSE, TRUE, << Dep(TplTarget) >>) >>

Doc2 ==
  << T("prod", "refs/heads/main", FALSE, TRUE, TRUE, << Dep(NoEnv) >>),
     T("omitted", "heads/other", FALSE, FALSE, FALSE, << >>),
     T("staging", "refs/heads/main", FALSE, FALSE, TRUE, << Dep("staging") >>) >>

Docs == { Doc1, Doc2 }

VARIABLES
  conf,        \* the configuration document of the repository
  refSha,      \* provider: ref -> sha it points to
  deployReqs,  \* provider: every createDeployment request, in arrival order
  statusReqs,  \* provider: every createDeploymentStatus request
  comments,    \* provider: every issues.createComment request
  pushes,      \* number of pushes to the auto-deploy branch so far
  pc,          \* per handler: the await it is suspended at
  loc,         \* per handler: its local variables
  trail,       \* per handler: what it did with each target it came to
  locks,       \* lock store: key -> in-use flag and queue of waiting calls
  calls,       \* lock store: per call of lock(key, f), its key and progress
  val          \* the counter the critical sections increment, per key

sysvars == << conf, refSha, deployReqs, statusReqs, comments, pushes, pc, loc, trail >>
lockvars == << locks, calls, val >>
vars == << sysvars, lockvars >>

\* ------------------------------------------------------------ pure helpers
\* Index of the entry named `name` in document `doc`, 0 when absent (conf[name]).
Lookup(doc, name) ==
  IF \E n \in 1..Len(doc) : doc[n].key = name
  THEN CHOOSE n \in 1..Len(doc) : doc[n].key = name
  ELSE 0

\* config(): every entry gets deployments = deployments || [].
Normalize(t) ==
  [t EXCEPT !.hasDeployments = TRUE,
            !.deployments = IF t.hasDeployments THEN t.deployments ELSE << >>]

\* render(template, data): a template is expanded against the data, any other
\* string is returned as it is.
Render(template, data) ==
  IF template = TplTarget THEN data.target ELSE template

\* autoDeploy.replace("refs/", "")
StripRefs(s) ==
  IF s = "refs/heads/main" THEN "heads/main"
  ELSE IF s = "refs/heads/other" THEN "heads/other"
  ELSE s

\* getDeployBody plus the owner/repo/ref of deployCommit's request body.
GetDeployBody(target, deployment, data) ==
  [task |-> IF deployment.task = "" THEN "deploy" ELSE deployment.task,
   transient_environment |-> target.transient_environment,
   production_environment |-> target.production_environment,
   environment |->
     Render(IF deployment.environment = NoEnv THEN "production"
            ELSE deployment.environment, data),
   required_contexts |-> target.required_contexts,
   payload |-> target.key,
   ref |-> data.ref]

RECURSIVE Reverse(_)
Reverse(s) == IF s = << >> THEN << >> ELSE Append(Reverse(Tail(s)), Head(s))

\* ----------------------------------------------------------------- provider
\* A createDeployment request that succeeded is a deployment; its id is its
\* position in deployReqs.
\* The ids n, n-1, ..., 1.
DescIds(n) == [x \in 1..n |-> n + 1 - x]

\* repos.listDeployments({sha}) and ({ref}): the matching deployments, most
\* recent first.
ListBySha(sha) ==
  SelectSeq(DescIds(Len(deployReqs)),
            LAMBDA id : deployReqs[id].ok /\ deployReqs[id].sha = sha)
ListByRef(ref) ==
  SelectSeq(DescIds(Len(deployReqs)),
            LAMBDA id : deployReqs[id].ok /\ deployReqs[id].ref = ref)

\* The commit a ref given to createDeployment resolves to: a branch through
\* refSha, a sha to itself.
Resolve(ref) == IF ref \in DOMAIN refSha THEN refSha[ref] ELSE ref

\* The provider's record of a createDeployment request; a request without a
\* description is listed with description null.
Request(p, body, target, idx, ok) ==
  [ok |-> ok, by |-> p, target |-> target, idx |-> idx, task |-> body.task,
   environment |-> body.environment, ref |-> body.ref, sha |-> Resolve(body.ref),
   transient_environment |-> body.transient_environment,
   production_environment |-> body.production_environment,
   required_contexts |-> body.required_contexts, payload |-> body.payload,
   description |-> IF "description" \in DOMAIN body THEN body.description
                   ELSE NoDesc]

\* ------------------------------------------------------------------- Init
EmptyLoc ==
  [kind |-> "none", evRef |-> "", k |-> 0, target |-> "", ref |-> "",
   sha |-> "", i |-> 0, deployed |-> << >>, user |-> "", list |-> << >>,
   j |-> 0, envs |-> << >>, r |-> 0, err |-> "", result |-> ""]

InitRefs ==
  [x \in { MainRef, OtherRef, PRRef } |->
     IF x = MainRef THEN MainShas[1] ELSE IF x = OtherRef THEN OtherSha ELSE PRSha]

\* ---------------------------------------------------------------- LockStore
Keys == { "count", "other" }
Calls == 1..NumCalls

IdleStore ==
  /\ locks = [k \in Keys |-> [inUse |-> FALSE, queue |-> << >>]]
  /\ calls = [c \in Calls |-> [key |-> "", pc |-> "new", tmp |-> 0, runs |-> 0,
                                result |-> ""]]
  /\ val = [k \in Keys |-> 0]

Init ==
  /\ IdleStore
  /\ conf \in Docs
  /\ refSha = InitRefs
  /\ deployReqs = << >>
  /\ statusReqs = << >>
  /\ comments = << >>
  /\ pushes = 0
  /\ pc = [p \in Procs |-> "idle"]
  /\ loc = [p \in Procs |-> EmptyLoc]
  /\ trail = [p \in Procs |-> << >>]

\* ---------------------------------------------------------------- plumbing
Goto(p, newpc, newloc) ==
  /\ pc' = [pc EXCEPT ![p] = newpc]
  /\ loc' = [loc EXCEPT ![p] = newloc]

\* Webhooks are numbered in the order they are delivered.
CanReceive(p) == pc[p] = "idle" /\ \A q \in Procs : q < p => pc[q] # "idle"

\* The handler's promise settles, resolved ("ok", "denied") or rejected
\* ("threw"); its locals are gone but for what the event carried.
Settle(p, l, result, err) ==
  Goto(p, "done", [EmptyLoc EXCEPT !.kind = l.kind, !.evRef = l.evRef,
                                   !.user = l.user,
                                   !.target = IF l.kind = "deploy" THEN l.target ELSE "",
                                   !.result = result, !.err = err])

Note(p, entry) == trail' = [trail EXCEPT ![p] = Append(@, entry)]

Outcome(l, status, err) ==
  [target |-> l.target, status |-> status, err |-> err, at |-> l.i,
   deployed |-> l.deployed, ref |-> l.ref, sha |-> l.sha]

\* A push moves main to its next commit.
Push ==
  /\ pushes < MaxPush
  /\ pushes + 1 < Len(MainShas)
  /\ pushes' = pushes + 1
  /\ refSha' = [refSha EXCEPT ![MainRef] = MainShas[pushes + 2]]
  /\ UNCHANGED << conf, deployReqs, statusReqs, comments, pc, loc, trail >>

\* ------------------------------------------------------------ deployCommit
\* The first target from position k on that autoDeployTarget does not return
\* from at once (auto_deploy_on is set), 0 when the loop ends.
FirstAuto(doc, k) ==
  IF \E n \in k..Len(doc) : doc[n].auto_deploy_on # ""
  THEN CHOOSE n \in k..Len(doc) :
         /\ doc[n].auto_deploy_on # ""
         /\ \A m \in k..(n - 1) : doc[m].auto_deploy_on = ""
  ELSE 0

\* handleAutoDeploy's loop goes on to the next target, or ends.
NextTarget(p, l) ==
  LET n == FirstAuto(conf, l.k + 1) IN
  IF n = 0 THEN Settle(p, l, "ok", "")
  ELSE Goto(p, "auto_getRef",
            [l EXCEPT !.k = n, !.target = conf[n].key, !.ref = "", !.sha = "",
                      !.i = 0, !.deployed = << >>])

\* What the caller does when deployCommit returns: autoDeployTarget logs
\* "done", handlePRDeploy returns.
DeployReturned(p, l) ==
  IF l.kind = "auto" THEN NextTarget(p, l) ELSE Settle(p, l, "ok", "")

\* As DeployThrew, with a catch in handlePRDeploy that only logs.
DeployThrewSilently(p, l, err) ==
  IF l.kind = "auto" THEN NextTarget(p, l) ELSE Settle(p, l, "ok", err)

\* What the caller does when deployCommit throws: autoDeployTarget's catch
\* logs, handlePRDeploy's catch posts the comment.
DeployThrew(p, l, err) ==
  IF l.kind = "auto" THEN NextTarget(p, l)
  ELSE Goto(p, "pd_comment", [l EXCEPT !.err = err])

\* As TargetError, with the emptiness of `deployments` checked for every
\* target of the document as soon as it is loaded.
TargetErrorEager(doc, target) ==
  IF Lookup(doc, target) = 0 THEN "does not exist"
  ELSE IF \E n \in 1..Len(doc) : Len(Normalize(doc[n]).deployments) = 0
       THEN "has no deployments"
  ELSE ""

\* The checks of deployCommit on the resolved configuration: the error it
\* throws, "" when the target can be dispatched.
TargetError(doc, target) ==
  IF Lookup(doc, target) = 0 THEN "does not exist"
  ELSE IF Len(Normalize(doc[Lookup(doc, target)]).deployments) = 0
       THEN "has no deployments"
  ELSE ""

\* Errors of deployCommit before it looks at the target: git.getCommit
\* rejects, the document is missing, the document fails the schema.
EarlyErrors == { "getCommit failed", "Not Found", "config is invalid" }

\* deployCommit up to its loop: await getCommit, await config, the two checks.
\* Neither await reads anything another handler writes.
DcPrepare(p) ==
  /\ pc[p] = "dc_prepare"
  /\ UNCHANGED << conf, refSha, deployReqs, statusReqs, comments, pushes >>
  /\ \/ \E e \in EarlyErrors :
          /\ DeployThrew(p, loc[p], e)
          /\ Note(p, Outcome(loc[p], "threw", e))
     \/ /\ TargetError(conf, loc[p].target) # ""
        /\ DeployThrew(p, loc[p], TargetError(conf, loc[p].target))
        /\ Note(p, Outcome(loc[p], "threw", TargetError(conf, loc[p].target)))
     \/ /\ TargetError(conf, loc[p].target) = ""
        /\ Goto(p, "dc_create", [loc[p] EXCEPT !.i = 1, !.deployed = << >>])
        /\ UNCHANGED trail

\* As Body, walking `deployments` from its end.
BodyReversed(l) ==
  LET targetVal == Normalize(conf[Lookup(conf, l.target)]) IN
  GetDeployBody(targetVal,
                targetVal.deployments[Len(targetVal.deployments) + 1 - l.i],
                [target |-> l.target, ref |-> l.ref])

\* The body of the i-th createDeployment request of the call.
Body(l) ==
  LET targetVal == Normalize(conf[Lookup(conf, l.target)]) IN
  GetDeployBody(targetVal, targetVal.deployments[l.i],
                [target |-> l.target, ref |-> l.ref])

\* As CreateFailed, with a catch that logs and lets the loop go on.
CreateFailedContinue(p, l) ==
  IF l.i < Len(Normalize(conf[Lookup(conf, l.target)]).deployments)
  THEN /\ Goto(p, "dc_create", [l EXCEPT !.i = l.i + 1])
       /\ UNCHANGED trail
  ELSE /\ DeployReturned(p, l)
       /\ Note(p, Outcome(l, "returned", ""))

\* What deployCommit does when createDeployment fails: log and rethrow.
CreateFailed(p, l) ==
  /\ DeployThrew(p, l, "createDeployment failed")
  /\ Note(p, Outcome(l, "threw", "createDeployment failed"))

\* What deployCommit does when createDeployment succeeds: push the record and
\* go on with the next sub-deployment, or return the list after the last.
CreateSucceeded(p, l, id) ==
  LET l2 == [l EXCEPT !.deployed = Append(@, id)] IN
  IF l.i < Len(Normalize(conf[Lookup(conf, l.target)]).deployments)
  THEN /\ Goto(p, "dc_create", [l2 EXCEPT !.i = l.i + 1])
       /\ UNCHANGED trail
  ELSE /\ DeployReturned(p, l2)
       /\ Note(p, Outcome(l2, "returned", ""))

\* One iteration of the loop: await github.repos.createDeployment(body).
DcCreate(p) ==
  /\ pc[p] = "dc_create"
  /\ UNCHANGED << conf, refSha, statusReqs, comments, pushes >>
  /\ \/ /\ deployReqs' = Append(deployReqs,
                                Request(p, Body(loc[p]), loc[p].target, loc[p].i, TRUE))
        /\ CreateSucceeded(p, loc[p], Len(deployReqs) + 1)
     \/ /\ deployReqs' = Append(deployReqs,
                                Request(p, Body(loc[p]), loc[p].target, loc[p].i, FALSE))
        /\ CreateFailed(p, loc[p])

deployCommit(p) == DcPrepare(p) \/ DcCreate(p)

\* -------------------------------------------------------- handleAutoDeploy
EventRefs == { "refs/heads/main", "refs/heads/other" }

\* app.on("push" | "status" | "check_run"): handleAutoDeploy awaits
\* context.config("deploy.yml"), which resolves (the loop starts with the
\* first target) or rejects.
ReceiveAuto(p) ==
  /\ CanReceive(p)
  /\ UNCHANGED << conf, refSha, deployReqs, statusReqs, comments, pushes, trail >>
  /\ \E e \in EventRefs :
       LET l == [EmptyLoc EXCEPT !.kind = "auto", !.evRef = e] IN
       \/ NextTarget(p, l)
       \/ Settle(p, l, "threw", "Not Found")

\* autoDeployTarget up to its first await: the ref of auto_deploy_on is
\* resolved with git.getRef.
AutoGetRef(p) ==
  /\ pc[p] = "auto_getRef"
  /\ UNCHANGED << conf, refSha, deployReqs, statusReqs, comments, pushes, trail >>
  /\ LET ref == StripRefs(conf[loc[p].k].auto_deploy_on) IN
     \/ /\ ref \in DOMAIN refSha
        /\ Goto(p, "auto_list", [loc[p] EXCEPT !.ref = ref, !.sha = refSha[ref]])
     \/ Settle(p, loc[p], "threw", "getRef failed")

\* As AlreadyDeployed, asking for every declared environment to be deployed.
AlreadyDeployedAll(targetVal, deploys) ==
  \A m \in 1..Len(targetVal.deployments) :
    \E n \in 1..Len(deploys) :
      deployReqs[deploys[n]].environment = targetVal.deployments[m].environment

\* deploys.data.find(d => environments.includes(d.environment)), with
\* environments = targetVal.deployments.map(d => d.environment).
AlreadyDeployed(targetVal, deploys) ==
  \E n \in 1..Len(deploys) :
    \E m \in 1..Len(targetVal.deployments) :
      deployReqs[deploys[n]].environment = targetVal.deployments[m].environment

\* listDeployments({sha}) resolves or rejects; on a listing the target is
\* skipped ("already deployed"), or deployCommit is called.  An entry without
\* `deployments` makes the map throw.
AutoList(p) ==
  /\ pc[p] = "auto_list"
  /\ UNCHANGED << conf, refSha, deployReqs, statusReqs, comments, pushes >>
  /\ \/ /\ ~conf[loc[p].k].hasDeployments
        /\ Settle(p, loc[p], "threw", "TypeError")
        /\ UNCHANGED trail
     \/ /\ conf[loc[p].k].hasDeployments
        /\ AlreadyDeployed(conf[loc[p].k], ListBySha(loc[p].sha))
        /\ NextTarget(p, loc[p])
        /\ Note(p, Outcome(loc[p], "already", ""))
     \/ /\ conf[loc[p].k].hasDeployments
        /\ ~AlreadyDeployed(conf[loc[p].k], ListBySha(loc[p].sha))
        /\ Goto(p, "dc_prepare", loc[p])
        /\ UNCHANGED trail
     \/ /\ Settle(p, loc[p], "threw", "listDeployments failed")
        /\ UNCHANGED trail

handleAutoDeploy(p) == ReceiveAuto(p) \/ AutoGetRef(p) \/ AutoList(p)

\* ---------------------------------------------------------- handlePRDeploy
Writers == { "alice" }

\* The second token of the comment: a target of the document, a name that is
\* no target, or nothing (command.split(" ")[1] is undefined).
Tokens == { conf[n].key : n \in 1..Len(conf) } \cup { "nosuch", NoToken }

\* The comments explored: any token from a collaborator, one command from a
\* user without write access.
Commands ==
  { << "alice", t >> : t \in Tokens } \cup { << "mallory", conf[1].key >> }

\* As Permission, without the early return.
PermissionIgnored(p, l, write) == Goto(p, "dc_prepare", l)

\* What handlePRDeploy does with the answer of canWrite.
Permission(p, l, write) ==
  IF write THEN Goto(p, "dc_prepare", l) ELSE Settle(p, l, "denied", "")

\* app.on("issue_comment.created") with a body starting with "/deploy":
\* handlePRDeploy awaits pulls.get (the pull request's head ref and sha) and
\* canWrite; either may reject.  Neither reads anything a handler writes.
ReceiveDeploy(p) ==
  /\ CanReceive(p)
  /\ UNCHANGED << conf, refSha, deployReqs, statusReqs, comments, pushes, trail >>
  /\ \E c \in Commands :
       LET l == [EmptyLoc EXCEPT !.kind = "deploy", !.user = c[1], !.target = c[2]]
           l2 == [l EXCEPT !.ref = PRRef, !.sha = PRSha]
       IN \/ Goto(p, "pd_comment", [l EXCEPT !.err = "pulls.get failed"])
          \/ Goto(p, "pd_comment", [l2 EXCEPT !.err = "canWrite failed"])
          \/ Permission(p, l2, c[1] \in Writers)

FailurePrefix == ":rotating_light: Failed to trigger deployment. :rotating_light:"

\* The catch block: issues.createComment with the prefix and error.message.
PdComment(p) ==
  /\ pc[p] = "pd_comment"
  /\ comments' = Append(comments, [by |-> p, prefix |-> FailurePrefix,
                                   message |-> loc[p].err])
  /\ Settle(p, loc[p], "ok", loc[p].err)
  /\ UNCHANGED << conf, refSha, deployReqs, statusReqs, pushes, trail >>

handlePRDeploy(p) == ReceiveDeploy(p) \/ PdComment(p)

\* ----------------------------------------------------------- handlePRClose
\* As Terminates, without the test.
TerminatesAny(deployment) == TRUE

\* "Only terminate transient environments": the test of the loop's continue.
Terminates(deployment) == deployment.transient_environment

\* The next listed deployment from position j on that the loop does not skip,
\* 0 when the loop ends.
NextTransient(list, j) ==
  IF \E n \in j..Len(list) : Terminates(deployReqs[list[n]])
  THEN CHOOSE n \in j..Len(list) :
         /\ Terminates(deployReqs[list[n]])
         /\ \A m \in j..(n - 1) : ~Terminates(deployReqs[list[m]])
  ELSE 0

\* As Put, for a map that keeps the first deployment of an environment.
PutKeepFirst(envs, env, id) ==
  IF \E n \in 1..Len(envs) : envs[n].env = env
  THEN envs
  ELSE Append(envs, [env |-> env, id |-> id])

\* As Put, with a list of deployments in place of the map by environment.
PutAppend(envs, env, id) == Append(envs, [env |-> env, id |-> id])

\* environments[deployment.environment] = deployment: a key keeps the place
\* of its first insertion, its value is overwritten.
Put(envs, env, id) ==
  IF \E n \in 1..Len(envs) : envs[n].env = env
  THEN [n \in 1..Len(envs) |->
          IF envs[n].env = env THEN [env |-> env, id |-> id] ELSE envs[n]]
  ELSE Append(envs, [env |-> env, id |-> id])

\* app.on("pull_request.closed"): handlePRClose awaits listDeployments({ref}),
\* which resolves (the reversed list is walked to its first transient
\* deployment) or rejects.
ReceiveClose(p) ==
  /\ CanReceive(p)
  /\ UNCHANGED << conf, refSha, deployReqs, statusReqs, comments, pushes, trail >>
  /\ LET l0 == [EmptyLoc EXCEPT !.kind = "close", !.ref = PRRef, !.sha = PRSha] IN
     \/ LET list == Reverse(ListByRef(l0.ref))
            l == [l0 EXCEPT !.list = list, !.j = NextTransient(list, 1)]
        IN IF l.j = 0 THEN Settle(p, l, "ok", "") ELSE Goto(p, "pc_status", l)
     \/ Settle(p, l0, "threw", "listDeployments failed")

\* As PcStatus, without the try around createDeploymentStatus: a rejection
\* rejects the handler.
PcStatusAborts(p) ==
  /\ pc[p] = "pc_status"
  /\ UNCHANGED << conf, refSha, deployReqs, comments, pushes, trail >>
  /\ \E ok \in BOOLEAN :
       /\ statusReqs' = Append(statusReqs,
                               [deployment_id |-> loc[p].list[loc[p].j],
                                state |-> "inactive", ok |-> ok, by |-> p])
       /\ LET id == loc[p].list[loc[p].j]
              l == [loc[p] EXCEPT
                      !.envs = Put(@, deployReqs[id].environment, id),
                      !.j = NextTransient(loc[p].list, loc[p].j + 1)]
          IN IF ~ok THEN Settle(p, loc[p], "threw", "createDeploymentStatus failed")
             ELSE IF l.j = 0 THEN Goto(p, "pc_remove", [l EXCEPT !.r = 1])
             ELSE Goto(p, "pc_status", l)

\* createDeploymentStatus(inactive) for the deployment at j resolves or
\* rejects (logged); either way the deployment is recorded for its
\* environment and the loop goes on.
PcStatus(p) ==
  /\ pc[p] = "pc_status"
  /\ UNCHANGED << conf, refSha, deployReqs, comments, pushes, trail >>
  /\ \E ok \in BOOLEAN :
       statusReqs' = Append(statusReqs,
                            [deployment_id |-> loc[p].list[loc[p].j],
                             state |-> "inactive", ok |-> ok, by |-> p])
  /\ LET id == loc[p].list[loc[p].j]
         l == [loc[p] EXCEPT
                 !.envs = Put(@, deployReqs[id].environment, id),
                 !.j = NextTransient(loc[p].list, loc[p].j + 1)]
     IN IF l.j = 0 THEN Goto(p, "pc_remove", [l EXCEPT !.r = 1])
        ELSE Goto(p, "pc_status", l)

\* As RemoveBody, removing from the deployment's own ref, the branch.
RemoveBodyBranch(deployment, sha) ==
  [task |-> "remove", ref |-> deployment.ref, required_contexts |-> << >>,
   payload |-> deployment.payload, environment |-> deployment.environment,
   description |-> IF deployment.description = NoDesc THEN ""
                   ELSE deployment.description,
   transient_environment |-> deployment.transient_environment,
   production_environment |-> deployment.production_environment]

\* The "remove" request for a recorded deployment.
RemoveBody(deployment, sha) ==
  [task |-> "remove", ref |-> sha, required_contexts |-> << >>,
   payload |-> deployment.payload, environment |-> deployment.environment,
   description |-> IF deployment.description = NoDesc THEN ""
                   ELSE deployment.description,
   transient_environment |-> deployment.transient_environment,
   production_environment |-> deployment.production_environment]

\* createDeployment(remove) for the r-th recorded environment resolves or
\* rejects (logged); the loop goes on.
PcRemove(p) ==
  /\ pc[p] = "pc_remove"
  /\ UNCHANGED << conf, refSha, statusReqs, comments, pushes, trail >>
  /\ \E ok \in BOOLEAN :
       deployReqs' = Append(deployReqs,
         Request(p, RemoveBody(deployReqs[loc[p].envs[loc[p].r].id], loc[p].sha),
                 "", loc[p].r, ok))
  /\ IF loc[p].r < Len(loc[p].envs)
     THEN Goto(p, "pc_remove", [loc[p] EXCEPT !.r = @ + 1])
     ELSE Settle(p, loc[p], "ok", "")

handlePRClose(p) == ReceiveClose(p) \/ PcStatus(p) \/ PcRemove(p)

\* ------------------------------------------------------------------- Spec
\* commands(app): the registered webhooks and the handlers they start.
commands(p) ==
  \/ handleAutoDeploy(p)
  \/ handlePRDeploy(p)
  \/ deployCommit(p)
  \/ handlePRClose(p)

Next == (Push \/ \E p \in Procs : commands(p)) /\ UNCHANGED lockvars

Spec == Init /\ [][Next]_vars

\* ------------------------------------------------------------ teardown pass
\* One pull_request.closed webhook against a provider that already lists
\* deployments.
Existing(env, transient, ref, sha, params) ==
  [ok |-> TRUE, by |-> 0, target |-> params.payload, idx |-> 0, task |-> "deploy",
   environment |-> env, ref |-> ref, sha |-> sha,
   transient_environment |-> transient,
   production_environment |-> params.production,
   required_contexts |-> << >>, payload |-> params.payload,
   description |-> params.description]

\* What a deployment of the branch was created with: by deployCommit for the
\* target review, or by another client of the provider.
Params ==
  { [payload |-> "review", description |-> NoDesc, production |-> FALSE],
    [payload |-> "other", description |-> "by hand", production |-> TRUE] }

\* Deployments of the pull request's branch, transient or not, and one of
\* main that the listing by ref leaves out.
ListedRecs ==
  { Existing(e, t, PRRef, PRSha, x) :
      e \in { "production", "staging" }, t \in BOOLEAN, x \in Params }
  \cup { Existing("production", TRUE, MainRef, MainShas[1],
                  [payload |-> "prod", description |-> NoDesc,
                   production |-> TRUE]) }

SeqsUpTo(S, n) == UNION { [1..m -> S] : m \in 0..n }

InitClose ==
  /\ IdleStore
  /\ conf = Doc1
  /\ refSha = InitRefs
  /\ deployReqs \in SeqsUpTo(ListedRecs, MaxListed)
  /\ statusReqs = << >>
  /\ comments = << >>
  /\ pushes = 0
  /\ pc = [p \in Procs |-> "idle"]
  /\ loc = [p \in Procs |-> EmptyLoc]
  /\ trail = [p \in Procs |-> << >>]

Closer == CHOOSE p \in Procs : \A q \in Procs : p <= q

NextClose == handlePRClose(Closer) /\ UNCHANGED lockvars

SpecClose == InitClose /\ [][NextClose]_vars

\* ---------------------------------------------------------------- LockStore
\* As Free, for a store that hands the key out whenever it is asked.
FreeAlways(k) == TRUE

\* The key is free.
Free(k) == ~locks[k].inUse

\* store.lock(key, f): the calls are made one after the other (the array of
\* Promise.all); a call gets the key when it is free and queues otherwise.
Lock(c) ==
  /\ calls[c].pc = "new"
  /\ \A d \in Calls : d < c => calls[d].pc # "new"
  /\ \E k \in Keys :
       IF Free(k)
       THEN /\ locks' = [locks EXCEPT ![k].inUse = TRUE]
            /\ calls' = [calls EXCEPT ![c].key = k, ![c].pc = "acquired"]
       ELSE /\ locks' = [locks EXCEPT ![k].queue = Append(@, c)]
            /\ calls' = [calls EXCEPT ![c].key = k, ![c].pc = "waiting"]
  /\ UNCHANGED val

\* The critical section of the call that holds the key starts: it reads the
\* counter.
Enter(c) ==
  /\ calls[c].pc = "acquired"
  /\ calls' = [calls EXCEPT ![c].pc = "running", ![c].tmp = val[calls[c].key],
                            ![c].runs = @ + 1]
  /\ UNCHANGED << locks, val >>

\* As Release, for a store that frees the key and forgets who waits.
ReleaseForgets(c, k, result) ==
  /\ locks' = [locks EXCEPT ![k] = [inUse |-> FALSE, queue |-> << >>]]
  /\ calls' = [calls EXCEPT ![c].pc = "done", ![c].result = result]

\* As Release, for a store that chains the calls of a key on one promise: a
\* rejection settles every call that waits without running it.
ReleasePoisons(c, k, result) ==
  IF result = "rejected"
  THEN /\ locks' = [locks EXCEPT ![k] = [inUse |-> FALSE, queue |-> << >>]]
       /\ calls' = [d \in Calls |->
            IF d = c \/ (calls[d].key = k /\ calls[d].pc = "waiting")
            THEN [calls[d] EXCEPT !.pc = "done", !.result = "rejected"]
            ELSE calls[d]]
  ELSE IF locks[k].queue = << >>
  THEN /\ locks' = [locks EXCEPT ![k].inUse = FALSE]
       /\ calls' = [calls EXCEPT ![c].pc = "done", ![c].result = result]
  ELSE /\ locks' = [locks EXCEPT ![k].queue = Tail(@)]
       /\ calls' = [calls EXCEPT ![c].pc = "done", ![c].result = result,
                                 ![Head(locks[k].queue)].pc = "acquired"]

\* As Release, for a store that wakes the call that queued last.
ReleaseLast(c, k, result) ==
  IF locks[k].queue = << >>
  THEN /\ locks' = [locks EXCEPT ![k].inUse = FALSE]
       /\ calls' = [calls EXCEPT ![c].pc = "done", ![c].result = result]
  ELSE /\ locks' = [locks EXCEPT ![k].queue = SubSeq(@, 1, Len(@) - 1)]
       /\ calls' = [calls EXCEPT ![c].pc = "done", ![c].result = result,
                                 ![locks[k].queue[Len(locks[k].queue)]].pc = "acquired"]

\* Call c gives the key back and its promise settles: the call at the head
\* of the queue gets the key, or the key becomes free.
Release(c, k, result) ==
  IF locks[k].queue = << >>
  THEN /\ locks' = [locks EXCEPT ![k].inUse = FALSE]
       /\ calls' = [calls EXCEPT ![c].pc = "done", ![c].result = result]
  ELSE /\ locks' = [locks EXCEPT ![k].queue = Tail(@)]
       /\ calls' = [calls EXCEPT ![c].pc = "done", ![c].result = result,
                                 ![Head(locks[k].queue)].pc = "acquired"]

\* val += 1 of the critical section, on the value it read.
Count(v) == v + 1

\* The critical section's promise settles: resolved (the counter is written)
\* or rejected (nothing written); either way the key is released.
Leave(c) ==
  /\ calls[c].pc = "running"
  /\ \/ /\ val' = [val EXCEPT ![calls[c].key] = Count(calls[c].tmp)]
        /\ Release(c, calls[c].key, "resolved")
     \/ /\ UNCHANGED val
        /\ Release(c, calls[c].key, "rejected")

NextLock == (\E c \in Calls : Lock(c) \/ Enter(c) \/ Leave(c)) /\ UNCHANGED sysvars

InitLock ==
  /\ IdleStore
  /\ conf = Doc1
  /\ refSha = InitRefs
  /\ deployReqs = << >>
  /\ statusReqs = << >>
  /\ comments = << >>
  /\ pushes = 0
  /\ pc = [p \in Procs |-> "idle"]
  /\ loc = [p \in Procs |-> EmptyLoc]
  /\ trail = [p \in Procs |-> << >>]

SpecLock == InitLock /\ [][NextLock]_vars

\* The event loop runs every continuation that is ready.
SpecLockFair == SpecLock /\ WF_vars(NextLock)

\* ================================================================= claims
Ids == 1..Len(deployReqs)

\* The createDeployment requests of handler p's deployCommit call for target
\* t, in the order they were issued.
DispatchReqs(p, t) ==
  SelectSeq([x \in Ids |-> x],
            LAMBDA id : /\ deployReqs[id].by = p
                        /\ deployReqs[id].target = t
                        /\ deployReqs[id].task = "deploy")

CommentsBy(p) == { n \in 1..Len(comments) : comments[n].by = p }

\* ---- C1
\* C1: when createDeployment fails on a sub-deployment of a deployCommit
\* call, the sub-deployments before it have been created and stay created,
\* the failing request is the last request of the call, and the call throws
\* the error instead of returning a list.
C1_FailFast ==
  /\ \A a \in Ids : \A b \in Ids :
       ( /\ a < b
         /\ deployReqs[a].by # 0
         /\ deployReqs[a].by = deployReqs[b].by
         /\ deployReqs[a].target = deployReqs[b].target
         /\ deployReqs[a].task = "deploy"
         /\ deployReqs[b].task = "deploy" )
       => deployReqs[a].ok
  /\ \A p \in Procs : \A n \in 1..Len(trail[p]) :
       LET e == trail[p][n]
           ids == DispatchReqs(p, e.target)
       IN e.err = "createDeployment failed" =>
            /\ e.status = "threw"
            /\ e.at >= 1
            /\ Len(ids) = e.at
            /\ \A m \in 1..Len(ids) :
                 /\ deployReqs[ids[m]].idx = m
                 /\ deployReqs[ids[m]].ok = (m < e.at)
            /\ e.deployed = SubSeq(ids, 1, e.at - 1)
            /\ loc[p].kind = "deploy" => loc[p].err = "createDeployment failed"

\* [A, B] with A created and B failed: one deployment, A, exists.
C1_Witness ==
  \E p \in Procs : \E n \in 1..Len(trail[p]) :
    /\ trail[p][n].err = "createDeployment failed"
    /\ trail[p][n].at = 2
    /\ Len(trail[p][n].deployed) = 1
    /\ deployReqs[trail[p][n].deployed[1]].ok

\* ---- C2
\* The provider lists, for the sha handler p resolved, a deployment whose
\* environment is one the target declares.
ListedMatch(p) ==
  \E id \in Ids :
    /\ deployReqs[id].ok
    /\ deployReqs[id].sha = loc[p].sha
    /\ \E m \in 1..Len(conf[loc[p].k].deployments) :
         conf[loc[p].k].deployments[m].environment = deployReqs[id].environment

\* C2: an auto-deploy evaluation that finds a deployment of one of the
\* target's declared environments listed for the resolved sha does not call
\* deployCommit and issues no createDeployment request for the target.
C2_Idempotence ==
  [][ \A p \in Procs :
        (pc[p] = "auto_list" /\ ListedMatch(p)) =>
          /\ pc'[p] \notin { "dc_prepare", "dc_create" }
          /\ \A id \in 1..Len(deployReqs') :
               id > Len(deployReqs) => deployReqs'[id].by # p ]_vars

C2_Witness ==
  \E p \in Procs : \E n \in 1..Len(trail[p]) :
    /\ loc[p].kind = "auto"
    /\ trail[p][n].status = "already"

\* ---- C5
\* C5: a /deploy comment of a user without write permission creates no
\* deployment, and once canWrite has answered false the handler has posted no
\* comment and made no other request.
C5_PermissionGate ==
  \A p \in Procs :
    (loc[p].kind = "deploy" /\ loc[p].user \notin Writers) =>
      /\ \A id \in Ids : deployReqs[id].by # p
      /\ loc[p].result = "denied" =>
           /\ CommentsBy(p) = { }
           /\ \A n \in 1..Len(statusReqs) : statusReqs[n].by # p
           /\ trail[p] = << >>

C5_Witness ==
  \E p \in Procs :
    /\ loc[p].kind = "deploy"
    /\ loc[p].user \notin Writers
    /\ pc[p] = "done"
    /\ loc[p].result = "denied"

\* ---- C9
\* An error was raised in handler p's try block.
Raised(p) ==
  \/ loc[p].err \in { "pulls.get failed", "canWrite failed" }
  \/ \E n \in 1..Len(trail[p]) : trail[p][n].status = "threw"

\* C9: a /deploy command of a user with write permission ends with exactly
\* one createComment, made of the failure prefix and the error's message, when an
\* error was raised, and with none otherwise; the auto-deploy and teardown
\* handlers post no comment.
C9_FailureSurface ==
  \A p \in Procs :
    /\ loc[p].kind \in { "auto", "close" } => CommentsBy(p) = { }
    /\ (loc[p].kind = "deploy" /\ loc[p].user \in Writers) =>
         /\ pc[p] # "done" => CommentsBy(p) = { }
         /\ (pc[p] = "done" /\ ~Raised(p)) => CommentsBy(p) = { }
         /\ (pc[p] = "done" /\ Raised(p)) =>
              /\ Cardinality(CommentsBy(p)) = 1
              /\ \A n \in CommentsBy(p) :
                   /\ comments[n].prefix = FailurePrefix
                   /\ comments[n].message = loc[p].err
                   /\ comments[n].message # ""
              /\ \A n \in 1..Len(trail[p]) :
                   trail[p][n].status = "threw" => trail[p][n].err = loc[p].err

C9_Witness ==
  \E p \in Procs :
    /\ loc[p].kind = "deploy"
    /\ loc[p].user \in Writers
    /\ pc[p] = "done"
    /\ \E n \in CommentsBy(p) : comments[n].message = "createDeployment failed"

\* ---- C10
Absent(t) == \A n \in 1..Len(conf) : conf[n].key # t
EmptyTarget(t) ==
  \E n \in 1..Len(conf) :
    conf[n].key = t /\ (~conf[n].hasDeployments \/ conf[n].deployments = << >>)
Healthy(t) ==
  \E n \in 1..Len(conf) :
    conf[n].key = t /\ conf[n].hasDeployments /\ conf[n].deployments # << >>

\* C10: deployCommit for a name that is no target of the resolved document
\* throws "does not exist", for a target without deployments it throws "has
\* no deployments", both before any createDeployment request; a target with
\* deployments is never refused with either error, whatever the other
\* targets of the document are.
C10_UnusableTargets ==
  /\ \A id \in Ids :
       (deployReqs[id].task = "deploy" /\ deployReqs[id].by # 0)
         => Healthy(deployReqs[id].target)
  /\ \A p \in Procs :
       /\ pc[p] = "dc_create" => Healthy(loc[p].target)
       /\ \A n \in 1..Len(trail[p]) :
            LET e == trail[p][n] IN
            /\ (e.status # "already" /\ Absent(e.target)) =>
                 /\ e.status = "threw"
                 /\ e.err \in EarlyErrors \cup { "does not exist" }
                 /\ DispatchReqs(p, e.target) = << >>
            /\ (e.status # "already" /\ EmptyTarget(e.target)) =>
                 /\ e.status = "threw"
                 /\ e.err \in EarlyErrors \cup { "has no deployments" }
                 /\ DispatchReqs(p, e.target) = << >>
            /\ Healthy(e.target) =>
                 e.err \notin { "does not exist", "has no deployments" }

\* A target without deployments was refused and another target of the same
\* document was dispatched.
C10_Witness ==
  \E p \in Procs : \E q \in Procs :
    /\ \E n \in 1..Len(trail[p]) :
         trail[p][n].err = "has no deployments" /\ EmptyTarget(trail[p][n].target)
    /\ \E n \in 1..Len(trail[q]) :
         trail[q][n].status = "returned" /\ Healthy(trail[q][n].target)

\* ---- C3
Removes == { id \in Ids : deployReqs[id].task = "remove" }

\* The deployments listed for the pull request's branch.
Listed == { id \in Ids : deployReqs[id].ok /\ deployReqs[id].ref = PRRef }

\* C3: a teardown pass sends a status update only for transient deployments,
\* every "remove" request it makes copies a transient deployment listed for
\* the branch, and a listing without transient deployments leads to no request.
C3_OnlyTransient ==
  /\ \A n \in 1..Len(statusReqs) :
       /\ statusReqs[n].deployment_id \in Listed
       /\ deployReqs[statusReqs[n].deployment_id].transient_environment
  /\ \A r \in Removes :
       /\ deployReqs[r].transient_environment
       /\ \E id \in Listed :
            /\ deployReqs[id].transient_environment
            /\ deployReqs[id].environment = deployReqs[r].environment
  /\ (\A id \in Listed : ~deployReqs[id].transient_environment) =>
       statusReqs = << >> /\ Removes = { }

\* A pass has ended over a listing that holds a non-transient deployment
\* next to a transient one.
C3_Witness ==
  /\ pc[Closer] = "done"
  /\ loc[Closer].result = "ok"
  /\ \E id \in Listed : ~deployReqs[id].transient_environment
  /\ \E id \in Listed : deployReqs[id].transient_environment
  /\ Removes # { }

\* ---- C4
StatusCount(id) ==
  Cardinality({ n \in 1..Len(statusReqs) :
                  statusReqs[n].deployment_id = id /\ statusReqs[n].state = "inactive" })
RemoveCount(env) ==
  Cardinality({ r \in Removes : deployReqs[r].environment = env })
TransientEnvs ==
  { deployReqs[id].environment : id \in { x \in Listed : deployReqs[x].transient_environment } }

\* C4: when a teardown pass has ended, every transient deployment of the
\* listing got one "inactive" status update and every environment with a
\* transient deployment got one "remove" request; during the pass there is
\* never more than one of either.
C4_OnePerEnvironment ==
  /\ \A id \in Listed : StatusCount(id) <= 1
  /\ \A id \in Ids : RemoveCount(deployReqs[id].environment) <= 1
  /\ (pc[Closer] = "done" /\ loc[Closer].result = "ok") =>
       /\ \A id \in Listed :
            StatusCount(id) = IF deployReqs[id].transient_environment THEN 1 ELSE 0
       /\ \A id \in Ids :
            RemoveCount(deployReqs[id].environment) =
              IF deployReqs[id].environment \in TransientEnvs THEN 1 ELSE 0

\* Three transient deployments of "production": three status updates, one
\* "remove".
C4_Witness ==
  /\ pc[Closer] = "done"
  /\ Cardinality({ id \in Listed : /\ deployReqs[id].transient_environment
                                   /\ deployReqs[id].environment = "production" }) = 3
  /\ Len(statusReqs) = 3
  /\ Cardinality(Removes) = 1

\* ---- C6
\* Handler p is past its check of the existing deployments and has not
\* finished its createDeployment requests.
Dispatching(p) == pc[p] \in { "dc_prepare", "dc_create" }

\* C6: an auto-deploy evaluation and another handler never dispatch the same
\* target for the same commit at the same time, and the createDeployment
\* requests of an evaluation's dispatch are not interleaved with those of
\* another dispatch of the target for the commit.
C6_Serialized ==
  /\ \A p \in Procs : \A q \in Procs :
       (p # q /\ loc[p].kind = "auto" /\ Dispatching(p) /\ Dispatching(q)) =>
         ~(loc[p].target = loc[q].target /\ loc[p].sha = loc[q].sha)
  /\ \A a \in Ids : \A b \in Ids : \A c \in Ids :
       ( /\ a < b /\ b < c
         /\ deployReqs[a].task = "deploy" /\ deployReqs[b].task = "deploy"
         /\ deployReqs[c].task = "deploy"
         /\ deployReqs[a].target = deployReqs[b].target
         /\ deployReqs[a].target = deployReqs[c].target
         /\ deployReqs[a].sha = deployReqs[b].sha
         /\ deployReqs[a].sha = deployReqs[c].sha
         /\ deployReqs[a].by = deployReqs[c].by
         /\ loc[deployReqs[a].by].kind = "auto" )
       => deployReqs[b].by = deployReqs[a].by

\* ---- C7
Running(k) == { c \in Calls : calls[c].key = k /\ calls[c].pc = "running" }
Holding(k) == { c \in Calls : calls[c].key = k /\ calls[c].pc \in { "acquired", "running" } }

\* C7: for every key at most one critical section is running, and no call
\* holds the key while another call's critical section for it has not settled.
C7_MutualExclusion ==
  \A k \in Keys :
    /\ Cardinality(Running(k)) <= 1
    /\ Cardinality(Holding(k)) <= 1
    /\ Holding(k) # { } => locks[k].inUse

\* One critical section runs while other calls of the key wait.
C7_Witness ==
  \E k \in Keys :
    /\ Cardinality(Running(k)) = 1
    /\ Len(locks[k].queue) >= 2

\* ---- C8
AllDone == \A c \in Calls : calls[c].pc = "done"
Resolved(k) == { c \in Calls : calls[c].key = k /\ calls[c].result = "resolved" }

\* C8: the calls all complete, each having run its critical section once, and
\* the counter of a key ends at the number of its critical sections that
\* resolved.
C8_ExactlyOnce ==
  <>[](/\ AllDone
       /\ \A c \in Calls : calls[c].runs = 1
       /\ \A k \in Keys : val[k] = Cardinality(Resolved(k)))

\* NumCalls concurrent increments of "count" leave the counter at NumCalls.
C8_Witness ==
  /\ AllDone
  /\ \A c \in Calls : calls[c].key = "count" /\ calls[c].result = "resolved"
  /\ val["count"] = NumCalls

\* ---- C11
\* No key is held by nobody, every call that waits is in the queue of a key
\* that is held, and a call is rejected only by its own critical section.
NoLeak ==
  /\ \A k \in Keys :
       /\ locks[k].inUse => Holding(k) # { }
       /\ locks[k].queue # << >> => locks[k].inUse
  /\ \A c \in Calls :
       /\ calls[c].pc = "waiting" =>
            \E n \in 1..Len(locks[calls[c].key].queue) :
              locks[calls[c].key].queue[n] = c
       /\ calls[c].result = "rejected" => (calls[c].pc = "done" /\ calls[c].runs = 1)
       /\ calls[c].pc = "done" => calls[c].runs = 1

\* C11: a critical section that fails releases its key: the failure settles
\* the failing call only, the call at the head of the queue gets the key and
\* runs, and in the end no key is held, however many sections failed.
C11_ReleasedOnFailure ==
  /\ []NoLeak
  /\ <>[](AllDone /\ \A k \in Keys : ~locks[k].inUse)

\* A call of "count" was rejected and the call queued behind it ran and
\* resolved.
C11_Witness ==
  \E c \in Calls : \E d \in Calls :
    /\ c < d
    /\ calls[c].key = "count" /\ calls[d].key = "count"
    /\ calls[c].result = "rejected"
    /\ calls[d].result = "resolved"
    /\ val["count"] >= 1

\* ---- C12
\* The call has started its critical section.
Started(c) == calls[c].runs >= 1

\* C12: the calls of a key start their critical sections in the order they
\* were made, the queue of a key holds its calls in that order, and a call
\* waits only while another call of the same key holds the key.
C12_FifoPerKey ==
  /\ \A c \in Calls : \A d \in Calls :
       (c < d /\ calls[c].key = calls[d].key /\ Started(d)) => Started(c)
  /\ \A k \in Keys :
       /\ \A n \in 1..Len(locks[k].queue) :
            /\ calls[locks[k].queue[n]].key = k
            /\ \A m \in 1..(n - 1) : locks[k].queue[m] < locks[k].queue[n]
  /\ \A c \in Calls :
       calls[c].pc = "waiting" => Holding(calls[c].key) # { }

\* Critical sections of the two keys run at the same time while calls of
\* "count" wait in the order they were made.
C12_Witness ==
  /\ Running("count") # { }
  /\ Running("other") # { }
  /\ Len(locks["count"].queue) >= 2

\* ---- C13
\* Handler p, an auto-deploy evaluation, is dispatching or has dispatched the
\* target whose auto_deploy_on resolved to ref.
AutoDispatched(p, ref) ==
  /\ loc[p].kind = "auto"
  /\ \/ pc[p] \in { "dc_prepare", "dc_create" } /\ loc[p].ref = ref
     \/ \E n \in 1..Len(trail[p]) :
          trail[p][n].status # "already" /\ trail[p][n].ref = ref

\* C13: an auto-deploy evaluation dispatches a target only when the target's
\* auto_deploy_on, without "refs/", is the ref of the event, without "refs/".
C13_RefFilter ==
  \A p \in Procs : \A ref \in DOMAIN refSha :
    AutoDispatched(p, ref) => ref = StripRefs(loc[p].evRef)

\* ---- C14
\* What rejects autoDeployTarget outside its try block.
TargetFailures == { "getRef failed", "listDeployments failed", "TypeError" }

\* C14: an auto-deploy evaluation does not end with the failure of one of its
\* targets.
C14_TargetFailureIsolated ==
  \A p \in Procs :
    (loc[p].kind = "auto" /\ pc[p] = "done") => loc[p].err \notin TargetFailures

\* ---- C15
\* The webhooks arrive one after the other: a handler starts when no other
\* handler is under way.
Quiet == \A q \in Procs : pc[q] \in { "idle", "done" }

NextSerial ==
  (Push \/ \E p \in Procs : (pc[p] = "idle" => Quiet) /\ commands(p))
    /\ UNCHANGED lockvars

SpecSerial == Init /\ [][NextSerial]_vars

\* Handler q, an auto-deploy evaluation, is dispatching or has dispatched
\* target t for commit sha.
Redispatch(q, t, sha) ==
  /\ loc[q].kind = "auto"
  /\ \/ /\ pc[q] \in { "dc_prepare", "dc_create" }
        /\ loc[q].target = t /\ loc[q].sha = sha
     \/ \E m \in 1..Len(trail[q]) :
          /\ trail[q][m].status # "already"
          /\ trail[q][m].target = t /\ trail[q][m].sha = sha

\* C15: once an auto-deploy evaluation has dispatched a target for a commit
\* and deployCommit returned, no later evaluation dispatches the target for
\* that commit.
C15_Idempotent ==
  \A p \in Procs : \A q \in Procs : \A n \in 1..Len(trail[p]) :
    (p < q /\ loc[p].kind = "auto" /\ trail[p][n].status = "returned")
      => ~Redispatch(q, trail[p][n].target, trail[p][n].sha)

\* ---- C16
\* The transient deployments of environment env listed for the branch; the
\* listing is most recent first, the most recent has the greatest id.
TransientOf(env) ==
  { id \in Listed : /\ deployReqs[id].transient_environment
                    /\ deployReqs[id].environment = env }
Latest(env) ==
  CHOOSE id \in TransientOf(env) : \A x \in TransientOf(env) : x <= id

\* C16: every "remove" request of a teardown pass has the payload, the
\* description ("" for none), the environment and the transient and
\* production flags of the most recent transient deployment listed for its
\* environment.
C16_LatestPerEnvironment ==
  \A r \in Removes :
    /\ TransientOf(deployReqs[r].environment) # { }
    /\ LET d == deployReqs[Latest(deployReqs[r].environment)] IN
       /\ deployReqs[r].payload = d.payload
       /\ deployReqs[r].description =
            (IF d.description = NoDesc THEN "" ELSE d.description)
       /\ deployReqs[r].environment = d.environment
       /\ deployReqs[r].transient_environment = d.transient_environment
       /\ deployReqs[r].production_environment = d.production_environment

\* A pass has ended with a "remove" for an environment whose most recent
\* transient deployment differs from an older one in payload, description and
\* production flag.
C16_Witness ==
  /\ pc[Closer] = "done"
  /\ \E r \in Removes : \E old \in TransientOf(deployReqs[r].environment) :
       LET d == deployReqs[Latest(deployReqs[r].environment)] IN
       /\ deployReqs[old].payload # d.payload
       /\ deployReqs[old].description # d.description
       /\ deployReqs[old].production_environment # d.production_environment
       /\ deployReqs[r].payload = d.payload

\* ---- C17
\* The requests of the pass that the provider rejected.
FailedStatuses == { n \in 1..Len(statusReqs) : ~statusReqs[n].ok }
FailedRemoves == { r \in Removes : ~deployReqs[r].ok }

\* Every transient deployment of the listing got its status update, every
\* environment with one its "remove" request.
PassComplete ==
  /\ \A id \in Listed :
       deployReqs[id].transient_environment => StatusCount(id) >= 1
  /\ \A env \in TransientEnvs : RemoveCount(env) >= 1

\* C17: a teardown pass whose listing succeeded ends without an error, and
\* when it has ended every transient deployment got its status update and
\* every environment its "remove" request, whichever of these requests the
\* provider rejected.
C17_FailuresIsolated ==
  (pc[Closer] = "done" /\ loc[Closer].err # "listDeployments failed") =>
    /\ loc[Closer].result = "ok"
    /\ loc[Closer].err = ""
    /\ PassComplete

\* A pass has ended after a rejected status update that was not its last and
\* a rejected "remove" that was not its last.
C17_Witness ==
  /\ pc[Closer] = "done"
  /\ loc[Closer].result = "ok"
  /\ \E n \in FailedStatuses : n < Len(statusReqs)
  /\ \E r \in FailedRemoves : \E x \in Removes : r < x
  /\ PassComplete

\* ---- C18
\* A request of the handler was left unanswered by the provider.
Unanswered(p) ==
  loc[p].err \in { "pulls.get failed", "canWrite failed" } \cup EarlyErrors

\* C18: a /deploy comment without a target, every request of whose handler
\* the provider answers, leads to no createDeployment request and to no
\* comment.
C18_MalformedIgnored ==
  \A p \in Procs :
    (loc[p].kind = "deploy" /\ loc[p].target = NoToken /\ ~Unanswered(p)) =>
      /\ CommentsBy(p) = { }
      /\ \A id \in Ids : deployReqs[id].by # p

\* ---- C19
\* The environment deployCommit asks for with the m-th entry of the target's
\* `deployments`.
DeclaredEnvironment(t, m) ==
  LET targetVal == Normalize(conf[Lookup(conf, t)]) IN
  GetDeployBody(targetVal, targetVal.deployments[m],
                [target |-> t, ref |-> ""]).environment

\* C19: the createDeployment requests of one deployCommit call are those of
\* the entries of `deployments` in their order, the next one made when the
\* one before has been answered, and the list the call returns holds the
\* record of every entry in that order.
C19_DeclarationOrder ==
  \A p \in Procs :
    /\ \A n \in 1..Len(conf) :
         LET t == conf[n].key
             ids == DispatchReqs(p, t)
         IN /\ Len(ids) <= Len(Normalize(conf[n]).deployments)
            /\ \A m \in 1..Len(ids) :
                 /\ deployReqs[ids[m]].idx = m
                 /\ deployReqs[ids[m]].environment = DeclaredEnvironment(t, m)
    /\ pc[p] = "dc_create" =>
         /\ Len(DispatchReqs(p, loc[p].target)) = loc[p].i - 1
         /\ loc[p].deployed = DispatchReqs(p, loc[p].target)
    /\ \A n \in 1..Len(trail[p]) :
         trail[p][n].status = "returned" =>
           /\ trail[p][n].deployed = DispatchReqs(p, trail[p][n].target)
           /\ Len(trail[p][n].deployed) =
                Len(Normalize(conf[Lookup(conf, trail[p][n].target)]).deployments)

\* deployCommit returned the two deployments of staging, "staging" before
\* "production".
C19_Witness ==
  \E p \in Procs : \E n \in 1..Len(trail[p]) :
    /\ trail[p][n].status = "returned"
    /\ Len(trail[p][n].deployed) = 2
    /\ deployReqs[trail[p][n].deployed[1]].environment = "staging"
    /\ deployReqs[trail[p][n].deployed[2]].environment = "production"

\* ---- C20
\* The requests of the teardown pass.
PassRequests == { id \in Ids : deployReqs[id].by = Closer }

RemoveShape ==
  \A id \in PassRequests :
    /\ deployReqs[id].task = "remove"
    /\ deployReqs[id].ref = PRSha
    /\ deployReqs[id].ref # PRRef
    /\ deployReqs[id].sha = PRSha
    /\ deployReqs[id].required_contexts = << >>

StatusBeforeRemove ==
  statusReqs' # statusReqs => (PassRequests = { } /\ deployReqs' = deployReqs)

\* C20: every createDeployment request of a teardown pass has task "remove",
\* the head sha of the pull request as its ref and no required contexts, and
\* the pass makes no status update once it has made such a request.
C20_RemoveShape == []RemoveShape /\ [][StatusBeforeRemove]_vars

\* A pass has ended with two status updates and a "remove" of the head sha.
C20_Witness ==
  /\ pc[Closer] = "done"
  /\ Len(statusReqs) >= 2
  /\ \E id \in PassRequests : deployReqs[id].ref = PRSha /\ deployReqs[id].ok

====
